---- MODULE Spec2Model ----
(***************************************************************************)
(* Message board of routes/api.js: the Board, Thread and Reply collections *)
(* and the eight request handlers of /api/threads/:board and               *)
(* /api/replies/:board.  Every handler is an async function; each action   *)
(* below is the code that runs between two awaits, so handlers of          *)
(* different requests interleave at the awaits exactly as on the server.   *)
(***************************************************************************)
EXTENDS Integers, Sequences, FiniteSets, TLC

\* ------------------------------------------------------------------ bounds
MaxThreads == 2      \* Thread documents ever inserted
MaxReplies == 2      \* Reply documents ever inserted
MaxClock == 2        \* last millisecond Date.now reaches
MaxRequests == 4     \* requests the server is sent
MaxListThreads == 11 \* Thread documents of the listing specification

\* ------------------------------------------------------- program constants
ListLimit == 10      \* .limit(10)
PreviewBack == 3     \* slice(thread.replies.length - 3)
SaltRounds == 10     \* bcrypt.hash(delete_password, 10)

Procs == {"r1", "r2"}          \* requests in flight at the same time
BoardNames == {"general"}      \* req.params.board
Undefined == "undefined"       \* a field the request body does not carry
Texts == {"hi"}                \* req.body.text
Passwords == {"p1", "p2"}      \* req.body.delete_password
ThreadPasswords == {"p1"}      \* the passwords threads are created with
ReplyPasswords == {"p2"}       \* the passwords replies are created with
Deleted == "[deleted]"         \* the text a deleted reply is given

ThreadIds == 1..MaxThreads
ReplyIds == 1..MaxReplies
BadId == -1                       \* a thread_id that is no ObjectId
ThreadIdInputs == ThreadIds \cup {BadId}   \* req.body.thread_id

VARIABLES
  boards,    \* Board collection, in natural (insertion) order; _id = index
  threads,   \* Thread collection: _id -> document
  replies,   \* Reply collection: _id -> document
  nThreads,  \* Thread _ids generated so far
  nReplies,  \* Reply _ids generated so far
  now,       \* Date.now()
  nRequests, \* requests received so far
  pc,        \* per request: the await its handler is suspended at
  req,       \* per request: route and body
  local,     \* per request: the handler's const bindings
  res        \* per request: what res.send / res.redirect delivered

vars == <<boards, threads, replies, nThreads, nReplies, now, nRequests, pc, req, local, res>>
store == <<boards, threads, replies>>

\* ------------------------------------------------------------------ values
Null == [_id |-> 0]                  \* findOne's result when nothing matches
NoRequest == [op |-> "none"]
NoLocal == [hashedPW |-> Null, board |-> Null, thread |-> Null,
            reply |-> Null, threads |-> <<>>]
NoResponse == [kind |-> "none"]
Redirect == [kind |-> "redirect", status |-> 302]
Success == [kind |-> "text", status |-> 200, body |-> "success"]
IncorrectPassword == [kind |-> "text", status |-> 400, body |-> "incorrect password"]
Json(b) == [kind |-> "json", status |-> 200, body |-> b]

\* ------------------------------------------------------- pure helpers
Max(a, b) == IF a >= b THEN a ELSE b
Min(a, b) == IF a <= b THEN a ELSE b

\* bcrypt.hash(data, 10): a digest that only the same data verifies against
Hash(data) == [rounds |-> SaltRounds, data |-> data]

\* a comparison that looks at the cost of the digest only
CompareRounds(data, digest) == digest.rounds = SaltRounds

\* bcrypt.compare(data, digest), both present
Compare(data, digest) == digest = Hash(data)

\* Array.prototype.slice(start): a negative start counts from the end
Slice(s, start) ==
  LET len == Len(s)
      k == IF start < 0 THEN Max(len + start, 0) ELSE Min(start, len)
  IN  SubSeq(s, k + 1, len)

\* the function f with x -> v added (or replaced)
Put(f, x, v) == [y \in DOMAIN f \cup {x} |-> IF y = x THEN v ELSE f[y]]
\* a removal that removes nothing
DropNothing(f, x) == f

\* the function f without x
Drop(f, x) == [y \in DOMAIN f \ {x} |-> f[y]]

\* ------------------------------------------------------- schemas
\* new Reply({text, delete_password}): created_on defaults to Date.now,
\* reported to false; text is not required
NewReply(id, text, pw, t) ==
  [_id |-> id, text |-> text, created_on |-> t, delete_password |-> pw,
   reported |-> FALSE]

\* new Thread({text, delete_password}): created_on and bumped_on each default
\* to their own Date.now() call (t1 first, then t2); reported to false
NewThread(id, text, pw, t1, t2) ==
  [_id |-> id, text |-> text, created_on |-> t1, bumped_on |-> t2,
   delete_password |-> pw, reported |-> FALSE, replies |-> <<>>]

\* new Board({name})
NewBoard(id, name) == [_id |-> id, name |-> name, threads |-> <<>>]

\* a Thread read without a projection: the select:false paths are left out
ThreadSelect(d) ==
  [_id |-> d._id, text |-> d.text, created_on |-> d.created_on,
   bumped_on |-> d.bumped_on, replies |-> d.replies]

\* a Reply read with the select:false paths in it
ReplySelectAll(d) == d

\* a Reply read without a projection: the select:false paths are left out
ReplySelect(d) == [_id |-> d._id, text |-> d.text, created_on |-> d.created_on]

\* Thread.findOne({_id}, 'delete_password')
ThreadSelectPassword(d) == [_id |-> d._id, delete_password |-> d.delete_password]

\* Reply.findOne({_id}, 'delete_password text')
ReplySelectPasswordText(d) ==
  [_id |-> d._id, delete_password |-> d.delete_password, text |-> d.text]

\* Board.findOne({name}): the first board of that name in natural order
FindBoard(name) ==
  LET hits == {i \in 1..Len(boards) : boards[i].name = name}
  IN  IF hits = {} THEN Null
      ELSE boards[CHOOSE i \in hits : \A j \in hits : i <= j]

\* .populate('replies'): the Reply documents the ids refer to, ids that match
\* no document dropped
RECURSIVE Populate(_)
Populate(ids) ==
  IF ids = <<>> THEN <<>>
  ELSE IF Head(ids) \in DOMAIN replies
       THEN <<ReplySelect(replies[Head(ids)])>> \o Populate(Tail(ids))
       ELSE Populate(Tail(ids))

\* .sort({bumped_on: 1}): least bumped_on first
RECURSIVE SortByBumpedAscending(_)
SortByBumpedAscending(ids) ==
  IF ids = {} THEN <<>>
  ELSE LET low == {i \in ids : \A j \in ids : threads[i].bumped_on <= threads[j].bumped_on}
           first == CHOOSE i \in low : \A j \in low : i <= j
       IN  <<first>> \o SortByBumpedAscending(ids \ {first})

\* .sort({bumped_on: -1}) over the documents with the given ids: greatest
\* bumped_on first, equal ones in natural (insertion) order
RECURSIVE SortByBumped(_)
SortByBumped(ids) ==
  IF ids = {} THEN <<>>
  ELSE LET top == {i \in ids : \A j \in ids : threads[i].bumped_on >= threads[j].bumped_on}
           first == CHOOSE i \in top : \A j \in top : i <= j
       IN  <<first>> \o SortByBumped(ids \ {first})

\* .limit(n)
Limit(s, n) == SubSeq(s, 1, Min(n, Len(s)))

\* the set of elements of a sequence
Range(s) == {s[i] : i \in DOMAIN s}

\* Thread.find({_id: {$in: ids}}).sort({bumped_on: -1}).limit(10)
FindThreads(ids) ==
  LET hits == Limit(SortByBumped(Range(ids) \cap DOMAIN threads), ListLimit)
  IN  [i \in DOMAIN hits |-> ThreadSelect(threads[hits[i]])]

\* threads.forEach: replycount added, replies cut to the last three
ThreadListView(t) ==
  LET populated == Populate(t.replies)
  IN  [_id |-> t._id, text |-> t.text, created_on |-> t.created_on,
       bumped_on |-> t.bumped_on, replycount |-> Len(populated),
       replies |-> Slice(populated, Len(populated) - PreviewBack)]

\* a found thread with .populate('replies')
ThreadDetailView(t) == [t EXCEPT !.replies = Populate(t.replies)]

\* ------------------------------------------------------- request plumbing
Request(op, board, text, pw, tid, rid) ==
  [op |-> op, board |-> board, text |-> text, delete_password |-> pw,
   thread_id |-> tid, reply_id |-> rid]

\* requests that will still insert a document of the kind the operation makes
Pending(op, before) ==
  Cardinality({q \in Procs : req[q].op = op /\ pc[q] \in before})

\* an answer (or a rejection) is taken off before anything else is scheduled:
\* taking it off touches no document, so no behaviour of the store is lost
Settled == \A q \in Procs : pc[q] \notin {"done", "rejected"}

\* the handler of request p runs up to its next await
Goto(p, label) == pc' = [pc EXCEPT ![p] = label]
\* the handler ends having sent r
Send(p, r) == pc' = [pc EXCEPT ![p] = "done"] /\ res' = [res EXCEPT ![p] = r]
\* the handler's promise rejects: nothing is sent, no later line runs
Reject(p) == pc' = [pc EXCEPT ![p] = "rejected"] /\ UNCHANGED res

\* request p arrives; of two requests in flight the later one is "r2"
Arrives(p, r) ==
  /\ Settled
  /\ pc[p] = "idle"
  /\ p = "r2" => pc["r1"] # "idle"
  /\ nRequests < MaxRequests
  /\ nRequests' = nRequests + 1
  /\ req' = [req EXCEPT ![p] = r]

\* the handler's bindings go out of scope when it ends
Forget(p) == local' = [local EXCEPT ![p] = NoLocal]

\* ------------------------------------------------------- getBoard
\* where the handler goes on once getBoard has returned
AfterBoard(op) == IF op = "post_thread" THEN "saveThread" ELSE "findThreads"

\* a getBoard that never looks for the board it is asked for
getBoardNoFindOne(p, op, name, hashedPW) ==
  /\ Goto(p, "newBoard")
  /\ local' = [local EXCEPT ![p].board = Null, ![p].hashedPW = hashedPW]

\* const board = await Board.findOne({ name }), the first await of both
\* handlers that call getBoard
getBoardFindOne(p, op, name, hashedPW) ==
  LET board == FindBoard(name)
  IN  /\ Goto(p, IF board = Null THEN "newBoard" ELSE AfterBoard(op))
      /\ local' = [local EXCEPT ![p].board = board, ![p].hashedPW = hashedPW]

\* return await newBoard.save()
getBoardSave(p) ==
  /\ Settled
  /\ pc[p] = "newBoard"
  /\ LET newBoard == NewBoard(Len(boards) + 1, req[p].board)
     IN  /\ boards' = Append(boards, newBoard)
         /\ local' = [local EXCEPT ![p].board = newBoard]
  /\ Goto(p, AfterBoard(req[p].op))
  /\ UNCHANGED <<nRequests, threads, replies, nThreads, nReplies, now, req, res>>

\* ------------------------------------------------------- /api/threads/:board
\* POST: bcrypt.hash(delete_password, 10) rejects when there is no password;
\* const board = await getBoard(req.params.board)
PostThread(p, max) ==
  /\ nThreads + Pending("post_thread", {"newBoard", "saveThread"}) < max
  /\ \E board \in BoardNames, text \in Texts \cup {Undefined},
        pw \in ThreadPasswords \cup {Undefined} :
       /\ Arrives(p, Request("post_thread", board, text, pw, 0, 0))
       /\ IF pw = Undefined
          THEN Reject(p) /\ UNCHANGED local
          ELSE getBoardFindOne(p, "post_thread", board, Hash(pw)) /\ UNCHANGED res
  /\ UNCHANGED <<store, nThreads, nReplies, now>>

\* POST: new Thread({text, delete_password: hashedPW}); await newThread.save()
\* (text is required: validation rejects without it)
PostThreadSave(p) ==
  /\ Settled
  /\ pc[p] = "saveThread"
  /\ IF req[p].text = Undefined
     THEN Reject(p) /\ Forget(p) /\ UNCHANGED <<threads, nThreads, now>>
     ELSE \E later \in {now, now + 1} :
            /\ later <= MaxClock
            /\ LET newThread == NewThread(nThreads + 1, req[p].text,
                                          local[p].hashedPW, now, later)
               IN  /\ threads' = Put(threads, newThread._id, newThread)
                   /\ local' = [local EXCEPT ![p].thread = newThread]
            /\ nThreads' = nThreads + 1
            /\ now' = later
            /\ Goto(p, "saveBoard") /\ UNCHANGED res
  /\ UNCHANGED <<nRequests, boards, replies, nReplies, req>>

\* POST: board.threads.push(savedThread); await board.save(); redirect
PostThreadSaveBoard(p) ==
  /\ Settled
  /\ pc[p] = "saveBoard"
  /\ boards' = [boards EXCEPT ![local[p].board._id].threads =
                  Append(@, local[p].thread._id)]
  /\ Send(p, Redirect) /\ Forget(p)
  /\ UNCHANGED <<nRequests, threads, replies, nThreads, nReplies, now, req>>

\* GET: const board = await getBoard(req.params.board || req.body.board)
GetThreads(p) ==
  /\ \E board \in BoardNames :
       /\ Arrives(p, Request("get_threads", board, Undefined, Undefined, 0, 0))
       /\ getBoardFindOne(p, "get_threads", board, Null)
  /\ UNCHANGED <<store, nThreads, nReplies, now, res>>

\* GET: Thread.find({_id: {$in: board.threads}}).sort().limit(10)
GetThreadsFind(p) ==
  /\ Settled
  /\ pc[p] = "findThreads"
  /\ local' = [local EXCEPT ![p].threads = FindThreads(local[p].board.threads)]
  /\ Goto(p, "populate")
  /\ UNCHANGED <<nRequests, store, nThreads, nReplies, now, req, res>>

\* GET: .populate({path: 'replies'}).lean(); forEach; res.status(200).send(threads)
GetThreadsSend(p) ==
  /\ Settled
  /\ pc[p] = "populate"
  /\ Send(p, Json([i \in DOMAIN local[p].threads |->
                     ThreadListView(local[p].threads[i])]))
  /\ Forget(p)
  /\ UNCHANGED <<nRequests, store, nThreads, nReplies, now, req>>

\* DELETE: const thread = await Thread.findOne({_id: thread_id}, 'delete_password')
\* rejects on an id it cannot cast; thread.delete_password throws on null,
\* bcrypt.compare rejects without data
DeleteThread(p) ==
  /\ \E board \in BoardNames, pw \in Passwords \cup {Undefined}, id \in ThreadIdInputs :
       /\ Arrives(p, Request("delete_thread", board, Undefined, pw, id, 0))
       /\ IF id \notin DOMAIN threads \/ pw = Undefined
          THEN Reject(p) /\ UNCHANGED local
          ELSE /\ local' = [local EXCEPT ![p].thread = ThreadSelectPassword(threads[id])]
               /\ Goto(p, "dt_compare") /\ UNCHANGED res
  /\ UNCHANGED <<store, nThreads, nReplies, now>>

\* DELETE: if (await bcrypt.compare(...)) { await thread.deleteOne(); 'success' }
\* else 'incorrect password'
DeleteThreadCompare(p) ==
  /\ Settled
  /\ pc[p] = "dt_compare"
  /\ IF Compare(req[p].delete_password, local[p].thread.delete_password)
     THEN /\ threads' = Drop(threads, local[p].thread._id)
          /\ Send(p, Success)
     ELSE /\ Send(p, IncorrectPassword)
          /\ UNCHANGED threads
  /\ Forget(p)
  /\ UNCHANGED <<nRequests, boards, replies, nThreads, nReplies, now, req>>

\* a thread.save() that writes the document as it was read, without the
\* digest that select: false kept out of it
ReportThreadSaveAsRead(p) ==
  /\ \E board \in BoardNames, id \in ThreadIdInputs :
       /\ Arrives(p, Request("report_thread", board, Undefined, Undefined, id, 0))
       /\ IF id \in DOMAIN threads
          THEN /\ threads' = [threads EXCEPT ![id].reported = TRUE,
                                             ![id].delete_password = Null]
               /\ Send(p, Success)
          ELSE Reject(p) /\ UNCHANGED threads
  /\ UNCHANGED <<boards, replies, nThreads, nReplies, now, local>>

\* PUT: Thread.findByIdAndUpdate(id, {$set: {reported: 'true'}}) returns the
\* document as it was, or null, and rejects on an id it cannot cast;
\* thread.save() throws on null and otherwise has nothing to write
ReportThread(p) ==
  /\ \E board \in BoardNames, id \in ThreadIdInputs :
       /\ Arrives(p, Request("report_thread", board, Undefined, Undefined, id, 0))
       /\ IF id \in DOMAIN threads
          THEN /\ threads' = [threads EXCEPT ![id].reported = TRUE]
               /\ Send(p, Success)
          ELSE Reject(p) /\ UNCHANGED threads
  /\ UNCHANGED <<boards, replies, nThreads, nReplies, now, local>>

\* ------------------------------------------------------- /api/replies/:board
\* POST: bcrypt.hash(delete_password, 10) rejects when there is no password;
\* const thread = await Thread.findOne({_id: thread_id}) rejects on an id it
\* cannot cast
PostReply(p, max) ==
  /\ nReplies + Pending("post_reply", {"pr_saveReply"}) < max
  /\ \E board \in BoardNames, text \in Texts \cup {Undefined},
        pw \in ReplyPasswords \cup {Undefined}, id \in ThreadIdInputs :
       /\ Arrives(p, Request("post_reply", board, text, pw, id, 0))
       /\ IF pw = Undefined \/ id = BadId
          THEN Reject(p) /\ UNCHANGED local
          ELSE /\ local' = [local EXCEPT
                              ![p].hashedPW = Hash(pw),
                              ![p].thread = IF id \in DOMAIN threads
                                            THEN ThreadSelect(threads[id]) ELSE Null]
               /\ Goto(p, "pr_saveReply") /\ UNCHANGED res
  /\ UNCHANGED <<store, nThreads, nReplies, now>>

\* POST: const savedReply = await newReply.save(); then thread.replies.push
\* throws on a null thread
PostReplySave(p) ==
  /\ Settled
  /\ pc[p] = "pr_saveReply"
  /\ LET newReply == NewReply(nReplies + 1, req[p].text, local[p].hashedPW, now)
     IN  /\ replies' = Put(replies, newReply._id, newReply)
         /\ IF local[p].thread = Null
            THEN Reject(p) /\ Forget(p)
            ELSE /\ local' = [local EXCEPT ![p].reply = newReply]
                 /\ Goto(p, "pr_saveThread") /\ UNCHANGED res
  /\ nReplies' = nReplies + 1
  /\ UNCHANGED <<nRequests, boards, threads, nThreads, now, req>>

\* a save that writes the whole document the handler holds, the replies it
\* had read included
SaveBumpedWhole(stored, read, reply) ==
  [stored EXCEPT !.replies = Append(read.replies, reply._id),
                 !.bumped_on = reply.created_on]

\* what thread.save() writes after replies.push(savedReply) and
\* bumped_on = savedReply.created_on: the pushed id, and bumped_on when the
\* assignment changed the value the handler had read
SaveBumped(stored, read, reply) ==
  [stored EXCEPT !.replies = Append(@, reply._id),
                 !.bumped_on = IF read.bumped_on = reply.created_on
                               THEN @ ELSE reply.created_on]

\* POST: await thread.save() rejects when the document is gone; redirect
PostReplySaveThread(p) ==
  /\ Settled
  /\ pc[p] = "pr_saveThread"
  /\ LET id == local[p].thread._id
     IN  IF id \in DOMAIN threads
         THEN /\ threads' = [threads EXCEPT
                               ![id] = SaveBumped(@, local[p].thread, local[p].reply)]
              /\ Send(p, Redirect)
         ELSE Reject(p) /\ UNCHANGED threads
  /\ Forget(p)
  /\ UNCHANGED <<nRequests, boards, replies, nThreads, nReplies, now, req>>

\* GET: Thread.findOne({_id: thread_id}) rejects on an id it cannot cast;
\* null is sent as it is
GetReplies(p) ==
  /\ \E board \in BoardNames, id \in ThreadIdInputs :
       /\ Arrives(p, Request("get_replies", board, Undefined, Undefined, id, 0))
       /\ IF id \in DOMAIN threads
          THEN /\ local' = [local EXCEPT ![p].thread = ThreadSelect(threads[id])]
               /\ Goto(p, "gr_populate") /\ UNCHANGED res
          ELSE /\ IF id = BadId THEN Reject(p) ELSE Send(p, Json(Null))
               /\ UNCHANGED local
  /\ UNCHANGED <<store, nThreads, nReplies, now>>

\* GET: .populate('replies').lean(); res.status(200).send(thread)
GetRepliesSend(p) ==
  /\ Settled
  /\ pc[p] = "gr_populate"
  /\ Send(p, Json(ThreadDetailView(local[p].thread)))
  /\ Forget(p)
  /\ UNCHANGED <<nRequests, store, nThreads, nReplies, now, req>>

\* DELETE: const thread = await threadPromise throws when Thread.findOne could
\* not cast the id; const reply = await replyPromise; reply.delete_password
\* throws on null, bcrypt.compare rejects without data
DeleteReply(p) ==
  /\ \E board \in BoardNames, pw \in Passwords \cup {Undefined},
        tid \in ThreadIdInputs, rid \in ReplyIds :
       /\ Arrives(p, Request("delete_reply", board, Undefined, pw, tid, rid))
       /\ IF tid = BadId \/ rid \notin DOMAIN replies \/ pw = Undefined
          THEN Reject(p) /\ UNCHANGED local
          ELSE /\ local' = [local EXCEPT
                              ![p].thread = IF tid \in DOMAIN threads
                                            THEN ThreadSelect(threads[tid]) ELSE Null,
                              ![p].reply = ReplySelectPasswordText(replies[rid])]
               /\ Goto(p, "dr_compare") /\ UNCHANGED res
  /\ UNCHANGED <<store, nThreads, nReplies, now>>

\* a save that writes the whole document anew
SaveDeletedAnew(stored) == NewReply(stored._id, Deleted, stored.delete_password, now)

\* what reply.save() writes after reply.text = '[deleted]'
SaveDeleted(stored) == [stored EXCEPT !.text = Deleted]

\* a handler that overwrites the text before it looks at the password
DeleteReplyCompareLate(p) ==
  /\ Settled
  /\ pc[p] = "dr_compare"
  /\ replies' = [replies EXCEPT ![local[p].reply._id] = SaveDeleted(@)]
  /\ IF Compare(req[p].delete_password, local[p].reply.delete_password)
     THEN Send(p, Success)
     ELSE Send(p, IncorrectPassword)
  /\ Forget(p)
  /\ UNCHANGED <<nRequests, boards, threads, nThreads, nReplies, now, req>>

\* DELETE: if (await bcrypt.compare(...)) { reply.text = '[deleted]';
\* await reply.save(); 'success' } else 'incorrect password'
DeleteReplyCompare(p) ==
  /\ Settled
  /\ pc[p] = "dr_compare"
  /\ IF Compare(req[p].delete_password, local[p].reply.delete_password)
     THEN /\ replies' = [replies EXCEPT ![local[p].reply._id] = SaveDeleted(@)]
          /\ Send(p, Success)
     ELSE /\ Send(p, IncorrectPassword)
          /\ UNCHANGED replies
  /\ Forget(p)
  /\ UNCHANGED <<nRequests, boards, threads, nThreads, nReplies, now, req>>

\* a report that flips the flag instead of setting it
ReportReplyToggle(p) ==
  /\ \E board \in BoardNames, tid \in ThreadIds, rid \in ReplyIds :
       /\ Arrives(p, Request("report_reply", board, Undefined, Undefined, tid, rid))
       /\ IF rid \in DOMAIN replies
          THEN /\ replies' = [replies EXCEPT ![rid].reported = ~@]
               /\ Send(p, Success)
          ELSE Reject(p) /\ UNCHANGED replies
  /\ UNCHANGED <<boards, threads, nThreads, nReplies, now, local>>

\* PUT: Reply.findByIdAndUpdate(id, {$set: {reported: 'true'}}); reply.save()
\* throws on null
ReportReply(p) ==
  /\ \E board \in BoardNames, tid \in ThreadIds, rid \in ReplyIds :
       /\ Arrives(p, Request("report_reply", board, Undefined, Undefined, tid, rid))
       /\ IF rid \in DOMAIN replies
          THEN /\ replies' = [replies EXCEPT ![rid].reported = TRUE]
               /\ Send(p, Success)
          ELSE Reject(p) /\ UNCHANGED replies
  /\ UNCHANGED <<boards, threads, nThreads, nReplies, now, local>>

\* ------------------------------------------------------- environment
\* the client has its answer, or gave up waiting for one
Close(p) ==
  /\ pc[p] \in {"done", "rejected"}
  /\ pc' = [pc EXCEPT ![p] = "idle"]
  /\ req' = [req EXCEPT ![p] = NoRequest]
  /\ res' = [res EXCEPT ![p] = NoResponse]
  /\ UNCHANGED <<nRequests, store, nThreads, nReplies, now, local>>

\* a millisecond passes
Tick ==
  /\ Settled
  /\ now < MaxClock
  /\ now' = now + 1
  /\ UNCHANGED <<nRequests, store, nThreads, nReplies, pc, req, local, res>>

Init ==
  /\ boards = <<>>
  /\ threads = <<>>
  /\ replies = <<>>
  /\ nThreads = 0
  /\ nReplies = 0
  /\ now = 1
  /\ nRequests = 0
  /\ pc = [p \in Procs |-> "idle"]
  /\ req = [p \in Procs |-> NoRequest]
  /\ local = [p \in Procs |-> NoLocal]
  /\ res = [p \in Procs |-> NoResponse]

Next ==
  \/ Tick
  \/ \E p \in Procs :
       \/ PostThread(p, MaxThreads)
       \/ getBoardSave(p)
       \/ PostThreadSave(p)
       \/ PostThreadSaveBoard(p)
       \/ GetThreads(p)
       \/ GetThreadsFind(p)
       \/ GetThreadsSend(p)
       \/ DeleteThread(p)
       \/ DeleteThreadCompare(p)
       \/ ReportThread(p)
       \/ PostReply(p, MaxReplies)
       \/ PostReplySave(p)
       \/ PostReplySaveThread(p)
       \/ GetReplies(p)
       \/ GetRepliesSend(p)
       \/ DeleteReply(p)
       \/ DeleteReplyCompare(p)
       \/ ReportReply(p)
       \/ Close(p)

Spec == Init /\ [][Next]_vars

\* ------------------------------------------------------- listing a full board
\* A board as requests leave it: n threads posted two per millisecond, then a
\* reply to thread b1 and a reply to thread b2 (0: no such reply), each a
\* millisecond later.
PostedAt(i) == (i + 1) \div 2
ListReplies(n, b1, b2) ==
  LET r1 == IF b1 = 0 THEN <<>>
            ELSE <<NewReply(1, "hi", Hash("p2"), PostedAt(n) + 1)>>
      r2 == IF b2 = 0 THEN <<>>
            ELSE <<NewReply(Len(r1) + 1, "hi", Hash("p2"), PostedAt(n) + 2)>>
  IN  r1 \o r2

ListThread(i, n, b1, b2) ==
  LET first == IF b1 = i THEN <<1>> ELSE <<>>
      second == IF b2 = i THEN <<IF b1 = 0 THEN 1 ELSE 2>> ELSE <<>>
  IN  [NewThread(i, "hi", Hash("p1"), PostedAt(i), PostedAt(i)) EXCEPT
         !.replies = first \o second,
         !.bumped_on = IF b2 = i THEN PostedAt(n) + 2
                       ELSE IF b1 = i THEN PostedAt(n) + 1 ELSE PostedAt(i)]

InitList ==
  \E n \in 0..MaxListThreads, b1, b2 \in 0..MaxListThreads :
    /\ b1 <= n /\ b2 <= n
    /\ boards = IF n = 0 THEN <<>>
                ELSE <<[NewBoard(1, "general") EXCEPT !.threads = [i \in 1..n |-> i]]>>
    /\ threads = [i \in 1..n |-> ListThread(i, n, b1, b2)]
    /\ replies = ListReplies(n, b1, b2)
    /\ nThreads = n
    /\ nReplies = Len(ListReplies(n, b1, b2))
    /\ now = PostedAt(n) + 2
    /\ nRequests = 0
    /\ pc = [p \in Procs |-> "idle"]
    /\ req = [p \in Procs |-> NoRequest]
    /\ local = [p \in Procs |-> NoLocal]
    /\ res = [p \in Procs |-> NoResponse]

\* list-threads while threads are being deleted
NextList ==
  \E p \in Procs :
    \/ GetThreads(p)
    \/ getBoardSave(p)
    \/ GetThreadsFind(p)
    \/ GetThreadsSend(p)
    \/ DeleteThread(p)
    \/ DeleteThreadCompare(p)
    \/ Close(p)

SpecList == InitList /\ [][NextList]_vars

\* ------------------------------------------------------- replying to a thread
\* A board with one thread that was posted a millisecond before the requests
\* that are followed, and not replied to yet; then the handlers of
\* /api/replies, two at a time.
InitReplies ==
  /\ boards = <<[NewBoard(1, "general") EXCEPT !.threads = <<1>>]>>
  /\ threads = [id \in {1} |-> NewThread(1, "hi", Hash("p1"), 0, 0)]
  /\ replies = <<>>
  /\ nThreads = 1
  /\ nReplies = 0
  /\ now = 1
  /\ nRequests = 0
  /\ pc = [p \in Procs |-> "idle"]
  /\ req = [p \in Procs |-> NoRequest]
  /\ local = [p \in Procs |-> NoLocal]
  /\ res = [p \in Procs |-> NoResponse]

NextReplies ==
  \/ Tick
  \/ \E p \in Procs :
       \/ PostReply(p, MaxReplies)
       \/ PostReplySave(p)
       \/ PostReplySaveThread(p)
       \/ GetReplies(p)
       \/ GetRepliesSend(p)
       \/ DeleteReply(p)
       \/ DeleteReplyCompare(p)
       \/ ReportReply(p)
       \/ Close(p)

SpecReplies == InitReplies /\ [][NextReplies]_vars

\* ------------------------------------------------------- vocabulary of the claims
\* request p takes a step of the handler of op
Steps(p, op) == pc'[p] # pc[p] /\ req'[p].op = op
\* request p arrives as op
ArrivesAs(p, op) == pc[p] = "idle" /\ Steps(p, op)
\* the password is the one the digest was made from
Verifies(pw, digest) == pw # Undefined /\ digest.data = pw
\* the ids of a sequence of documents
Ids(docs) == [i \in DOMAIN docs |-> docs[i]._id]
\* the outcomes of section 7, as the transport delivers them
IsIncorrectCredential(r) == r.kind = "text" /\ r.status = 400 /\ r.body = "incorrect password"
IsSuccess(r) == r.kind = "text" /\ r.status = 200 /\ r.body = "success"
IsNotFound(r) == \/ r.kind = "json" /\ r.body = Null
                 \/ r.kind = "text" /\ r.status = 404

\* what C1 asks of one step of request p
C1_Step(p) ==
  /\ (ArrivesAs(p, "delete_thread")
        /\ req'[p].thread_id \in DOMAIN threads
        /\ req'[p].delete_password # Undefined
        /\ ~Verifies(req'[p].delete_password,
                     threads[req'[p].thread_id].delete_password))
     => pc'[p] = "dt_compare" /\ store' = store
  /\ (pc[p] = "dt_compare" /\ Steps(p, "delete_thread")
        /\ ~Verifies(req[p].delete_password, local[p].thread.delete_password))
     => IsIncorrectCredential(res'[p]) /\ store' = store

\* C1: delete-thread on an existing thread with a password that does not
\* verify against its digest answers IncorrectCredential, and no step of that
\* call changes the thread record (or any other document).
C1_WrongPasswordKeepsThread == [][\A p \in Procs : C1_Step(p)]_vars

C1_Witness ==
  \E p \in Procs :
    /\ pc[p] = "done" /\ req[p].op = "delete_thread"
    /\ IsIncorrectCredential(res[p])
    /\ req[p].thread_id \in DOMAIN threads
    /\ threads[req[p].thread_id].replies # <<>>

\* what C2 asks of one step of request p
C2_Step(p) ==
  /\ (pc[p] = "dt_compare" /\ Steps(p, "delete_thread") /\ IsSuccess(res'[p]))
     => local[p].thread._id \notin DOMAIN threads'
  /\ \A id \in 1..nThreads : id \notin DOMAIN threads => id \notin DOMAIN threads'
  /\ (ArrivesAs(p, "get_replies")
        /\ req'[p].thread_id \in 1..nThreads
        /\ req'[p].thread_id \notin DOMAIN threads)
     => pc'[p] = "done" /\ IsNotFound(res'[p])

\* C2: when delete-thread answers success the thread record is gone, a thread
\* record that is gone never comes back, and get-thread /
\* get-thread-with-replies for the id of a deleted thread answers NotFound.
C2_DeletedThreadStaysGone == [][\A p \in Procs : C2_Step(p)]_vars

C2_Witness ==
  \E p \in Procs :
    /\ pc[p] = "done" /\ req[p].op = "get_replies"
    /\ IsNotFound(res[p])
    /\ req[p].thread_id \in 1..nThreads

\* what C3 asks of one step of request p
C3_Step(p) ==
  /\ (pc[p] = "dr_compare" /\ Steps(p, "delete_reply")
        /\ Verifies(req[p].delete_password, local[p].reply.delete_password))
     => LET id == local[p].reply._id
        IN  /\ IsSuccess(res'[p])
            /\ DOMAIN replies' = DOMAIN replies
            /\ replies'[id] = [_id |-> id, text |-> Deleted,
                               created_on |-> replies[id].created_on,
                               delete_password |-> replies[id].delete_password,
                               reported |-> replies[id].reported]
            /\ \A other \in DOMAIN replies \ {id} : replies'[other] = replies[other]
            /\ threads' = threads /\ boards' = boards
  /\ DOMAIN replies \subseteq DOMAIN replies'
  /\ \A t \in DOMAIN threads \cap DOMAIN threads' :
       /\ Len(threads[t].replies) <= Len(threads'[t].replies)
       /\ SubSeq(threads'[t].replies, 1, Len(threads[t].replies)) = threads[t].replies
  /\ (pc[p] = "gr_populate" /\ Steps(p, "get_replies"))
     => /\ res'[p].kind = "json"
        /\ Ids(res'[p].body.replies) = local[p].thread.replies
        /\ \A i \in DOMAIN res'[p].body.replies :
             res'[p].body.replies[i].text = replies[res'[p].body.replies[i]._id].text

\* C3: delete-reply with the password of the reply's own digest answers
\* success and overwrites that reply's text with '[deleted]', leaving its _id,
\* created_on, digest and reported flag, every other reply and every thread
\* as they were; no Reply document is ever removed, no thread's replies
\* sequence ever loses an id, and get-thread-with-replies lists every reply
\* the thread it read refers to.
C3_RedactChangesOnlyText == [][\A p \in Procs : C3_Step(p)]_vars

C3_Witness ==
  \E p \in Procs :
    /\ pc[p] = "done" /\ req[p].op = "get_replies"
    /\ res[p].kind = "json" /\ res[p].body # Null
    /\ \E i \in DOMAIN res[p].body.replies : res[p].body.replies[i].text = Deleted

\* what C4 asks of one step of request p
C4_Step(p) ==
  /\ (ArrivesAs(p, "delete_reply")
        /\ req'[p].thread_id # BadId
        /\ req'[p].reply_id \in DOMAIN replies
        /\ req'[p].delete_password # Undefined
        /\ ~Verifies(req'[p].delete_password,
                     replies[req'[p].reply_id].delete_password))
     => pc'[p] = "dr_compare" /\ store' = store
  /\ (pc[p] = "dr_compare" /\ Steps(p, "delete_reply")
        /\ ~Verifies(req[p].delete_password, local[p].reply.delete_password))
     => IsIncorrectCredential(res'[p]) /\ store' = store

Privileged == {"delete_password", "reported"}
Redacted(view) ==
  /\ DOMAIN view \cap Privileged = {}
  /\ \A i \in DOMAIN view.replies : DOMAIN view.replies[i] \cap Privileged = {}
C5_NoPrivilegedField ==
  \A p \in Procs :
    (pc[p] = "done" /\ res[p].kind = "json") =>
      IF req[p].op = "get_threads"
      THEN \A i \in DOMAIN res[p].body : Redacted(res[p].body[i])
      ELSE res[p].body = Null \/ Redacted(res[p].body)

C5_Witness ==
  \E p \in Procs :
    /\ pc[p] = "done" /\ res[p].kind = "json" /\ req[p].op = "get_threads"
    /\ \E i \in DOMAIN res[p].body : res[p].body[i].replies # <<>>

\* what C6 asks of one step of request p
C6_Step(p) ==
  (pc[p] = "populate" /\ Steps(p, "get_threads")) =>
    \A i \in DOMAIN local[p].threads :
      LET full == local[p].threads[i].replies
          n == Len(full)
          view == res'[p].body[i]
      IN  /\ view.replycount = n
          /\ Ids(view.replies) = SubSeq(full, n - Min(3, n) + 1, n)

\* C6: every thread list-threads returns carries replycount = n, the number
\* of replies stored for it, and as replies the last min(3, n) of them in
\* creation order.
C6_LastThreeReplies == [][\A p \in Procs : C6_Step(p)]_vars

\* what C7 asks of one step of request p
C7_Step(p) ==
  /\ (pc[p] = "findThreads" /\ Steps(p, "get_threads"))
     => LET found == local'[p].threads
            of_board == Range(local[p].board.threads) \cap DOMAIN threads
            returned == Range(Ids(found))
        IN  /\ Len(found) <= 10
            /\ Len(found) = Min(10, Cardinality(of_board))
            /\ returned \subseteq of_board
            /\ Cardinality(returned) = Len(found)
            /\ \A i \in DOMAIN found : found[i].bumped_on = threads[found[i]._id].bumped_on
            /\ \A i \in DOMAIN found : \A t \in of_board \ returned :
                 found[i].bumped_on >= threads[t].bumped_on
            /\ \A i, j \in DOMAIN found : i < j => found[i].bumped_on >= found[j].bumped_on
  /\ (pc[p] = "populate" /\ Steps(p, "get_threads"))
     => /\ res'[p].kind = "json"
        /\ Ids(res'[p].body) = Ids(local[p].threads)
        /\ \A i \in DOMAIN res'[p].body :
             res'[p].body[i].bumped_on = local[p].threads[i].bumped_on

\* C7: list-threads returns at most 10 threads; they are existing threads the
\* board refers to, each once; no thread of the board left out has a greater
\* bumped_on than one returned, none is left out while fewer than 10 are
\* returned; and each returned thread has a bumped_on >= that of every
\* thread after it.  The answer lists the threads found, in that order.
C7_TenMostRecent == [][\A p \in Procs : C7_Step(p)]_vars

C7_Witness ==
  \E p \in Procs :
    /\ pc[p] = "done" /\ req[p].op = "get_threads" /\ res[p].kind = "json"
    /\ Len(res[p].body) = 10
    /\ Cardinality(DOMAIN threads) > 10
    /\ res[p].body[1]._id < res[p].body[2]._id
    /\ res[p].body[9].bumped_on = res[p].body[10].bumped_on

\* what C8 asks of one step of request p
C8_Step(p) ==
  /\ (pc[p] = "saveThread" /\ Steps(p, "post_thread") /\ pc'[p] = "saveBoard")
     => LET t == threads'[local'[p].thread._id]
        IN  t.bumped_on = t.created_on
  /\ (pc[p] = "pr_saveThread" /\ Steps(p, "post_reply") /\ pc'[p] = "done")
     => threads'[local[p].thread._id].bumped_on = local[p].reply.created_on

\* C8: the thread create-thread stores has bumped_on = created_on, and the
\* thread update of create-reply leaves bumped_on = the created_on of the
\* reply that call stored.
C8_BumpedOn == [][\A p \in Procs : C8_Step(p)]_vars

\* C9: at most one Board document per name, in every reachable state.
C9_OneBoardPerName ==
  \A i, j \in DOMAIN boards : boards[i].name = boards[j].name => i = j

\* what C10 asks of one step of request p
C10_Step(p) ==
  /\ (\/ ArrivesAs(p, "delete_thread") \/ ArrivesAs(p, "report_thread"))
       /\ req'[p].thread_id \notin DOMAIN threads
     => IsNotFound(res'[p]) /\ store' = store
  /\ (\/ ArrivesAs(p, "delete_reply") \/ ArrivesAs(p, "report_reply"))
       /\ req'[p].reply_id \notin DOMAIN replies
     => IsNotFound(res'[p]) /\ store' = store

\* C10: delete-thread and report-thread with an id that matches no thread,
\* delete-reply and report-reply with an id that matches no reply, answer
\* NotFound and change no document.
C10_NotFound == [][\A p \in Procs : C10_Step(p)]_vars

\* what C11 asks of one step of request p: local[p].thread = Null is the
\* thread findOne did not find
C11_Step(p) ==
  /\ (ArrivesAs(p, "post_reply") /\ req'[p].thread_id \notin DOMAIN threads
        /\ req'[p].text # Undefined /\ req'[p].delete_password # Undefined)
     => /\ replies' = replies
        /\ pc'[p] \in {"done", "rejected"} => IsNotFound(res'[p])
  /\ (pc[p] = "pr_saveReply" /\ Steps(p, "post_reply") /\ local[p].thread = Null)
     => replies' = replies /\ IsNotFound(res'[p])

\* C11: create-reply with a thread id that matches no thread answers NotFound
\* and no step of that call stores a Reply document.
C11_NoReplyWithoutThread == [][\A p \in Procs : C11_Step(p)]_vars

\* an answer that names a validation failure and nothing else
IsValidationError(r) ==
  r.kind = "text" /\ r.status \in {400, 422} /\ ~IsIncorrectCredential(r)
\* a creation request that lacks its text or its password
Incomplete(r) ==
  /\ r.op \in {"post_thread", "post_reply"}
  /\ r.text = Undefined \/ r.delete_password = Undefined

\* what C12 asks of one step of request p
C12_Step(p) ==
  (pc'[p] # pc[p] /\ Incomplete(req'[p]))
    => /\ store' = store
       /\ pc'[p] \in {"done", "rejected"} => IsValidationError(res'[p])

\* C12: no step of a create-thread or create-reply call that lacks text or
\* password writes to the store (no Board is created on the way, no Reply is
\* stored without text), and the call ends with ValidationError.
C12_ValidatedBeforeWrite == [][\A p \in Procs : C12_Step(p)]_vars

\* C13: a handler that has run to its end has delivered an outcome: no
\* invocation of any operation ends without an answer.  (The safety half of
\* "every invocation eventually completes with one declared outcome": a run
\* in which a handler ends unanswered can never be completed into one that
\* answers, the handler runs no further line.)
C13_EveryCallAnswered ==
  \A p \in Procs : pc[p] \in {"done", "rejected"} => res[p] # NoResponse

\* what C14 asks of one step of request p
C14_Step(p) ==
  /\ (ArrivesAs(p, "report_thread") /\ req'[p].thread_id \in DOMAIN threads)
     => LET id == req'[p].thread_id
        IN  /\ pc'[p] = "done" /\ IsSuccess(res'[p])
            /\ threads' = [threads EXCEPT ![id].reported = TRUE]
            /\ boards' = boards /\ replies' = replies
  /\ (ArrivesAs(p, "report_reply") /\ req'[p].reply_id \in DOMAIN replies)
     => LET id == req'[p].reply_id
        IN  /\ pc'[p] = "done" /\ IsSuccess(res'[p])
            /\ replies' = [replies EXCEPT ![id].reported = TRUE]
            /\ boards' = boards /\ threads' = threads

\* C14: report-thread and report-reply on an existing target, sent without
\* any credential, answer success whether or not the target was reported
\* before, leave its reported flag true, and change no other field of it
\* and no other document.
C14_ReportSetsOnlyFlag == [][\A p \in Procs : C14_Step(p)]_vars

C14_Witness ==
  \E p \in Procs :
    /\ pc[p] = "done" /\ req[p].op = "report_reply" /\ IsSuccess(res[p])
    /\ req[p].delete_password = Undefined
    /\ replies[req[p].reply_id].reported
    /\ \E t \in DOMAIN threads :
         threads[t].reported /\ req[p].reply_id \in Range(threads[t].replies)

\* what C15 asks of one step of the server
C15_Kept ==
  /\ \A t \in DOMAIN threads \cap DOMAIN threads' :
       /\ threads'[t].text = threads[t].text
       /\ threads'[t].created_on = threads[t].created_on
       /\ threads'[t].delete_password = threads[t].delete_password
  /\ \A r \in DOMAIN replies \cap DOMAIN replies' :
       /\ replies'[r].created_on = replies[r].created_on
       /\ replies'[r].delete_password = replies[r].delete_password

\* C15: no step of any operation changes the text, created_on or digest of a
\* thread that exists, or the created_on or digest of a reply that exists.
C15_Immutable == [][C15_Kept]_vars

C15_Witness ==
  \E t \in DOMAIN threads :
    /\ threads[t].reported /\ threads[t].text = "hi"
    /\ threads[t].bumped_on > threads[t].created_on
    /\ \E i \in DOMAIN threads[t].replies :
         replies[threads[t].replies[i]].text = Deleted

\* the Board documents of a name, and the one a query in natural order meets
\* first
Named(bs, name) == {i \in DOMAIN bs : bs[i].name = name}
Least(S) == CHOOSE i \in S : \A j \in S : i <= j
\* getBoard is called by the handlers of these two, once bcrypt.hash is through
Resolves(r) ==
  \/ r.op = "get_threads"
  \/ r.op = "post_thread" /\ r.delete_password # Undefined

\* what C16 asks of one step of request p.  A getBoard call with no other
\* operation in between is one findOne that finds a board, or a findOne that
\* finds none followed by a save while there is still none.
C16_Step(p) ==
  /\ (pc[p] = "idle" /\ pc'[p] # "idle" /\ Resolves(req'[p])
        /\ Named(boards, req'[p].board) # {})
     => /\ boards' = boards
        /\ pc'[p] # "newBoard"
        /\ local'[p].board._id = Least(Named(boards, req'[p].board))
  /\ (pc[p] = "newBoard" /\ pc'[p] # "newBoard"
        /\ Named(boards, req[p].board) = {})
     => /\ Named(boards', req[p].board) = {local'[p].board._id}
        /\ \A i \in DOMAIN boards : boards'[i] = boards[i]

\* C16: a resolve(name) that runs with no other operation in between returns
\* the first Board document of that name in the store it leaves behind (the
\* only one, when it had to create it), and a resolve(name) that starts when
\* a Board of that name exists returns that first one and creates nothing:
\* two such calls in a row return the same Board identity and the second
\* creates no Board, whether or not one existed before the first.
C16_ResolveIdempotent == [][\A p \in Procs : C16_Step(p)]_vars

C16_Witness ==
  \E p \in Procs :
    /\ pc[p] = "findThreads" /\ req[p].op = "get_threads"
    /\ \A q \in Procs \ {p} : pc[q] = "idle"
    /\ Len(boards) = 1 /\ local[p].board._id = 1
    /\ local[p].board.threads # <<>>

\* create-thread has stored thread t and has not yet completed
Creating(t) == \E p \in Procs : pc[p] = "saveBoard" /\ local[p].thread._id = t

\* C17: in every reachable state, every thread whose create-thread has
\* completed is referred to by the Board document resolve returns for its
\* board name (the first of that name), which is the one list-threads reads.
C17_CreatedThreadListed ==
  \A t \in DOMAIN threads :
    ~Creating(t) =>
      \E name \in BoardNames :
        /\ Named(boards, name) # {}
        /\ t \in Range(boards[Least(Named(boards, name))].threads)

\* s is t, or t with something after it
IsPrefix(t, s) == Len(t) <= Len(s) /\ SubSeq(s, 1, Len(t)) = t

\* what C18 asks of one step of request p
C18_Step(p) ==
  /\ \A t \in DOMAIN threads \cap DOMAIN threads' :
       IsPrefix(threads[t].replies, threads'[t].replies)
  /\ (pc[p] = "pr_saveThread" /\ Steps(p, "post_reply") /\ pc'[p] = "done")
     => LET t == local[p].thread._id
            r == local[p].reply._id
        IN  /\ r \notin Range(threads[t].replies)
            /\ threads'[t].replies = Append(threads[t].replies, r)

\* C18: every step leaves each thread's replies sequence with the sequence
\* it had as a prefix, and the step that completes a create-reply adds the id
\* of the reply that call created, once, at the end of the sequence stored
\* at that moment: when all concurrent create-reply calls on a thread have
\* completed, the sequence holds the id of each reply they created exactly
\* once.
C18_RepliesAppendOnly == [][\A p \in Procs : C18_Step(p)]_vars

C18_Witness ==
  \E t \in DOMAIN threads :
    /\ threads[t].replies = <<2, 1>>
    /\ \A p \in Procs : pc[p] = "idle"

\* the greatest created_on among the replies of a sequence of ids
RECURSIVE LatestReply(_)
LatestReply(ids) ==
  IF ids = <<>> THEN 0
  ELSE Max(replies[Head(ids)].created_on, LatestReply(Tail(ids)))
\* no create-reply is under way
NoReplyUnderWay ==
  \A p \in Procs : req[p].op = "post_reply" => pc[p] \in {"done", "rejected"}
\* every replied-to thread is bumped to its latest reply
BumpedToLatest ==
  \A t \in DOMAIN threads :
    threads[t].replies # <<>> => threads[t].bumped_on = LatestReply(threads[t].replies)

\* C19: no step lowers the bumped_on of a thread, and in every state a step
\* leads to in which no create-reply is under way, the bumped_on of every
\* thread with replies is the greatest created_on among its replies.
C19_BumpedNeverDecreases ==
  [][/\ \A t \in DOMAIN threads \cap DOMAIN threads' :
          threads'[t].bumped_on >= threads[t].bumped_on
     /\ (NoReplyUnderWay => BumpedToLatest)']_vars

\* what C20 asks of one step of request p: how far the call gets and what it
\* answers and writes is fixed by reply_id, delete_password and the Reply
\* collection, whatever thread_id is
C20_Step(p) ==
  /\ ArrivesAs(p, "delete_reply")
     => /\ store' = store
        /\ IF req'[p].reply_id \in DOMAIN replies /\ req'[p].delete_password # Undefined
           THEN /\ pc'[p] = "dr_compare"
                /\ local'[p].reply._id = req'[p].reply_id
                /\ local'[p].reply.delete_password =
                     replies[req'[p].reply_id].delete_password
           ELSE pc'[p] = "rejected"
  /\ (pc[p] = "dr_compare" /\ Steps(p, "delete_reply"))
     => /\ boards' = boards /\ threads' = threads
        /\ IF Verifies(req[p].delete_password, local[p].reply.delete_password)
           THEN /\ IsSuccess(res'[p])
                /\ replies' = [replies EXCEPT ![local[p].reply._id].text = Deleted]
           ELSE IsIncorrectCredential(res'[p]) /\ replies' = replies

\* C20: what redact-reply answers and writes depends on reply_id and the
\* password alone: for the reply's own thread, for another thread and for an
\* id that matches no thread it runs to the same comparison, of the password
\* with the reply's digest and never the thread's, with the same outcome and
\* the same store afterwards.
C20_ThreadIdIrrelevant == [][\A p \in Procs : C20_Step(p)]_vars
====
